---- MODULE Spec2Model ----
(***************************************************************************)
(* Blue-Kik-Parser: the multi-backup HTML report (BlueKikParserHTML.py)    *)
(* the single-database exporters (BlueKikParser.py and                     *)
(* blue_kik_parser/blue_kik_parser.py) and the image extractor             *)
(* (BlueKikImageBlobExtractor.py).                                         *)
(*                                                                         *)
(* Strings are sequences of tokens (<<"alice", "@talk.kik.com">> is        *)
(* 'alice@talk.kik.com'); the empty string is <<>>; SQL NULL / Python None *)
(* / pandas NaN is the value NULL.  String functions act on tokens: lower  *)
(* maps each token to its lower-case form, endswith compares the last      *)
(* tokens, strip removes leading and trailing blank tokens.                *)
(*                                                                         *)
(* A DataFrame is the sequence of its rows; a row is a record whose fields *)
(* are the columns.  Every row also carries the history field g_msg, the   *)
(* messagesTable row it was joined from; g_msg is no column of the frame   *)
(* and no action reads it.  The timestamp column is left out: nothing      *)
(* below depends on it.                                                    *)
(***************************************************************************)
EXTENDS Naturals, Sequences, FiniteSets, TLC

\* Most backups one scanned folder holds.
MaxSources == 2
\* Most rows one messagesTable holds.
MaxMsgs == 2

NULL == <<"<NULL>">>
\* None where a list of strings may stand.
NoList == <<NULL>>
\* The exit statuses; exit_code is NULL while the script runs.
ExitOk == <<0>>
ExitFailure == <<1>>

\* ------------------------------------------------------------------ strings

\* str.lower() / SQLite's ASCII case folding, on one token.
LowerTok(t) ==
    CASE t = "@TALK.KIK.COM" -> "@talk.kik.com"
      [] t = "@GROUPS.KIK.COM" -> "@groups.kik.com"
      [] t = "K1" -> "k1"
      [] t = "K2" -> "k2"
      [] t = ".JPG" -> ".jpg"
      [] t = ".PNG" -> ".png"
      [] OTHER -> t

Lower(s) == [i \in 1..Len(s) |-> LowerTok(s[i])]

EndsWith(s, suffix) ==
    /\ Len(s) >= Len(suffix)
    /\ SubSeq(s, Len(s) - Len(suffix) + 1, Len(s)) = suffix

RECURSIVE LStrip(_)
LStrip(s) == IF s # <<>> /\ Head(s) = " " THEN LStrip(Tail(s)) ELSE s

RECURSIVE RStrip(_)
RStrip(s) ==
    IF s # <<>> /\ s[Len(s)] = " " THEN RStrip(SubSeq(s, 1, Len(s) - 1)) ELSE s

\* str.strip()
Strip(s) == RStrip(LStrip(s))

ImageExtensions == {".jpg", ".jpeg", ".png", ".gif"}

\* fname.endswith((".jpg", ".jpeg", ".png", ".gif"))
HasImageExtension(s) == s # <<>> /\ s[Len(s)] \in ImageExtensions

\* os.path.splitext(fname)[0] for a name that ends with an image extension,
\* and re.sub(r'\.(jpg|jpeg|png|gif)$', '', s).
DropImageExtension(s) ==
    IF HasImageExtension(s) THEN SubSeq(s, 1, Len(s) - 1) ELSE s

\* SQLite: X LIKE '%suffix'.  LIKE folds ASCII case on both sides and is
\* NULL (not true) for a NULL operand.
Like(s, suffix) == s # NULL /\ EndsWith(Lower(s), Lower(suffix))

\* SQL equality: never true when a side is NULL.
SqlEq(a, b) == a # NULL /\ b # NULL /\ a = b

RECURSIVE Flatten(_)
Flatten(ss) == IF ss = <<>> THEN <<>> ELSE Head(ss) \o Flatten(Tail(ss))

\* ------------------------------------------------------- the backup stores

TalkSuffix == <<"@talk.kik.com">>
GroupSuffix == <<"@groups.kik.com">>
SelfMarker == <<"account owner">>
NoText == <<"[No Text]">>
Preview == <<"preview">>

\* The content_name tags the bulk Images query excludes.
BookkeepingTags ==
    { <<"icon">>, <<"app-name">>, <<"file-name">>, <<"file-size">>,
      <<"int-file-url-local">>, <<"int-file-state">>, <<"int-chunk-progress">>,
      <<"file-url">>, <<"sha1-scaled">>, <<"blockhash-scaled">>,
      <<"sha1-original">>, <<"allow-forward">> }

\* Rows a messagesTable may hold, in _id order.
MessagePool ==
    << [_id |-> 1, bin_id |-> <<"alice", "@talk.kik.com">>, was_me |-> 0,
        partner_jid |-> <<"alice">>, body |-> <<"hi">>, content_id |-> NULL],
       [_id |-> 2, bin_id |-> <<"alice", "@talk.kik.com">>, was_me |-> 1,
        partner_jid |-> <<"alice">>, body |-> NULL, content_id |-> <<"c1">>],
       [_id |-> 3, bin_id |-> <<"club", "@groups.kik.com">>, was_me |-> 1,
        partner_jid |-> <<"carol">>, body |-> <<"pic">>, content_id |-> <<"k2">>],
       [_id |-> 4, bin_id |-> <<"club", "@groups.kik.com">>, was_me |-> 0,
        partner_jid |-> <<"carol">>, body |-> <<"doc">>, content_id |-> <<"c4">>],
       [_id |-> 5, bin_id |-> <<"bob", "@TALK.KIK.COM">>, was_me |-> 0,
        partner_jid |-> <<"bob">>, body |-> <<"yo">>, content_id |-> <<"c3">>],
       [_id |-> 6, bin_id |-> <<"sys", "@talk.kik.com", ".bak">>, was_me |-> 1,
        partner_jid |-> <<"sys">>, body |-> <<"x">>, content_id |-> <<"c2">>] >>

\* The side tables of every backup: content c1 has a preview whose
\* content_string is the image key k1 and a file-size row; content k2 has a
\* preview with no content_string, and its content_id is itself an image key;
\* content c2 has a file-size row only; contents c3 and c4 have a preview
\* each, with the image keys k3 and k4.
KIKContentTable ==
    << [content_id |-> <<"c1">>, content_name |-> Preview, content_string |-> <<"k1">>],
       [content_id |-> <<"c1">>, content_name |-> <<"file-size">>, content_string |-> <<"1024">>],
       [content_id |-> <<"k2">>, content_name |-> Preview, content_string |-> NULL],
       [content_id |-> <<"c2">>, content_name |-> <<"file-size">>, content_string |-> <<"77">>],
       [content_id |-> <<"c3">>, content_name |-> Preview, content_string |-> <<"k3">>],
       [content_id |-> <<"c4">>, content_name |-> Preview, content_string |-> <<"k4">>] >>

\* Content c4 is served from two addresses.
KIKContentURITable ==
    << [content_id |-> <<"c1">>, content_uri |-> <<"https://cdn/c1">>],
       [content_id |-> <<"c4">>, content_uri |-> <<"https://cdn/c4">>],
       [content_id |-> <<"c4">>, content_uri |-> <<"https://mirror/c4">>] >>

\* image_bytes is the blob: its first token stands for the format its header
\* announces, <<>> is an empty blob.
AccountSwitcherImgBackupTable ==
    << [image_id |-> <<"k1">>, image_bytes |-> <<"png", "..">>],
       [image_id |-> <<"k2">>, image_bytes |-> <<"raw", "..">>],
       [image_id |-> <<"k3">>, image_bytes |-> <<"png", "..">>],
       [image_id |-> <<"k4">>, image_bytes |-> <<>>] >>

KIKContentRetainCountTable ==
    << [content_id |-> <<"c1">>, retain_count |-> 1] >>

\* The rows of `table` whose column `col` equals `v`; one all-NULL row when
\* there is none (LEFT JOIN).
LeftJoin(table, col, v, nullRow) ==
    LET hits == SelectSeq(table, LAMBDA r : SqlEq(r[col], v))
    IN  IF hits = <<>> THEN <<nullRow>> ELSE hits

NullContent == [content_id |-> NULL, content_name |-> NULL, content_string |-> NULL]
NullUri == [content_id |-> NULL, content_uri |-> NULL]
NullImage == [image_id |-> NULL, image_bytes |-> NULL]
NullRetain == [content_id |-> NULL, retain_count |-> NULL]

\* Faulty variant of Sender: the partner identifier is never replaced.
SenderRaw(m) == m.partner_jid

\* CASE WHEN m.was_me = 1 THEN 'account owner' ELSE m.partner_jid END
Sender(m) == IF m.was_me = 1 THEN SelfMarker ELSE m.partner_jid

\* COALESCE(a, b)
Coalesce(a, b) == IF a # NULL THEN a ELSE b

\* ------------------------------------------------------------- the queries

Sections == {"Private Messages", "Group Messages", "Images"}
\* The order in which the query and accumulator dictionaries are iterated.
SectionOrder == <<"Private Messages", "Group Messages", "Images">>

\* The relational store of one backup file.
Database(messages) ==
    [messagesTable |-> messages,
     KIKContentTable |-> KIKContentTable,
     KIKContentURITable |-> KIKContentURITable,
     AccountSwitcherImgBackupTable |-> AccountSwitcherImgBackupTable,
     KIKContentRetainCountTable |-> KIKContentRetainCountTable]

\* messagesTable m LEFT JOIN KIKContentTable kc ON m.content_id = kc.content_id
\*   LEFT JOIN KIKContentURITable ku ON m.content_id = ku.content_id
\*   LEFT JOIN AccountSwitcherImgBackupTable ai ON kc.content_string = ai.image_id
\*   [LEFT JOIN KIKContentRetainCountTable kr ON m.content_id = kr.content_id]
\* for one row m: the joined rows, in nested-loop order.
JoinByContentString(db, m, withRetain) ==
    LET kcs == LeftJoin(db.KIKContentTable, "content_id", m.content_id, NullContent)
        kus == LeftJoin(db.KIKContentURITable, "content_id", m.content_id, NullUri)
        krs == IF withRetain
               THEN LeftJoin(db.KIKContentRetainCountTable, "content_id",
                             m.content_id, NullRetain)
               ELSE <<NullRetain>>
        ais(kc) == LeftJoin(db.AccountSwitcherImgBackupTable, "image_id",
                            kc.content_string, NullImage)
    IN  Flatten([i \in 1..Len(kcs) |->
          Flatten([j \in 1..Len(kus) |->
            Flatten([k \in 1..Len(ais(kcs[i])) |->
              [l \in 1..Len(krs) |->
                [kc |-> kcs[i], ku |-> kus[j], ai |-> ais(kcs[i])[k],
                 kr |-> krs[l]]]])])])

\* messagesTable m LEFT JOIN AccountSwitcherImgBackupTable ai
\*   ON m.content_id = ai.image_id
\*   [LEFT JOIN KIKContentTable kc ON m.content_id = kc.content_id]
JoinByContentId(db, m, withContent) ==
    LET ais == LeftJoin(db.AccountSwitcherImgBackupTable, "image_id",
                        m.content_id, NullImage)
        kcs == IF withContent
               THEN LeftJoin(db.KIKContentTable, "content_id", m.content_id,
                             NullContent)
               ELSE <<NullContent>>
    IN  Flatten([i \in 1..Len(ais) |->
          [j \in 1..Len(kcs) |-> [ai |-> ais[i], kc |-> kcs[j]]]])

\* kc.content_name = 'preview' OR kc.content_name IS NULL
PreviewOrNull(kc) == kc.content_name = Preview \/ kc.content_name = NULL

\* kc.content_name NOT IN ('icon', ...): not true for a NULL content_name.
NotBookkeeping(kc) ==
    kc.content_name # NULL /\ kc.content_name \notin BookkeepingTags

\* The message columns of the Private and Group queries of the HTML report.
MessageRow(m, j) ==
    [_id |-> m._id, bin_id |-> m.bin_id, sender |-> Sender(m),
     body |-> Coalesce(m.body, NoText), content_id |-> m.content_id,
     content_name |-> j.kc.content_name, content_uri |-> j.ku.content_uri,
     image_id |-> j.ai.image_id, g_msg |-> m]

ImageRow(m, j) ==
    [sender |-> Sender(m), content_id |-> m.content_id,
     content_name |-> j.kc.content_name, content_uri |-> j.ku.content_uri,
     image_id |-> j.ai.image_id, g_msg |-> m]

\* Faulty variant of BackupWhere: the private query does not restrict the
\* channel identifier.
BackupWhereAnyChannel(section, m, j) ==
    CASE section = "Private Messages" -> PreviewOrNull(j.kc)
      [] section = "Group Messages" ->
           Like(m.bin_id, GroupSuffix) /\ PreviewOrNull(j.kc)
      [] section = "Images" ->
           /\ Like(m.bin_id, TalkSuffix) \/ Like(m.bin_id, GroupSuffix)
           /\ j.kc.content_name = Preview

\* The WHERE clause of each query of process_backup.
BackupWhere(section, m, j) ==
    CASE section = "Private Messages" ->
           Like(m.bin_id, TalkSuffix) /\ PreviewOrNull(j.kc)
      [] section = "Group Messages" ->
           Like(m.bin_id, GroupSuffix) /\ PreviewOrNull(j.kc)
      [] section = "Images" ->
           /\ Like(m.bin_id, TalkSuffix) \/ Like(m.bin_id, GroupSuffix)
           /\ j.kc.content_name = Preview

\* One query of process_backup, run on one store.
BackupQuery(db, section) ==
    LET msgs == db.messagesTable
        rowsOf(m) ==
          LET js == SelectSeq(JoinByContentString(db, m, section = "Images"),
                              LAMBDA j : BackupWhere(section, m, j))
          IN  [n \in 1..Len(js) |->
                 IF section = "Images" THEN ImageRow(m, js[n])
                 ELSE MessageRow(m, js[n])]
    IN  Flatten([i \in 1..Len(msgs) |-> rowsOf(msgs[i])])

\* The standard (workbook) queries: the same joins, was_me and retain_count
\* selected as well, and the bulk Images view over direct conversations.
StdWhere(section, m, j) ==
    CASE section = "Private Messages" ->
           Like(m.bin_id, TalkSuffix) /\ PreviewOrNull(j.kc)
      [] section = "Group Messages" ->
           Like(m.bin_id, GroupSuffix) /\ PreviewOrNull(j.kc)
      [] section = "Images" ->
           Like(m.bin_id, TalkSuffix) /\ NotBookkeeping(j.kc)

StdRow(section, m, j) ==
    IF section = "Images"
    THEN [sender |-> Sender(m), content_id |-> m.content_id,
          content_name |-> j.kc.content_name, content_uri |-> j.ku.content_uri,
          image_id |-> j.ai.image_id, retain_count |-> j.kr.retain_count,
          was_me |-> m.was_me, g_msg |-> m]
    ELSE [_id |-> m._id, bin_id |-> m.bin_id, sender |-> Sender(m),
          body |-> Coalesce(m.body, NoText), content_id |-> m.content_id,
          content_name |-> j.kc.content_name, content_uri |-> j.ku.content_uri,
          image_id |-> j.ai.image_id, was_me |-> m.was_me, g_msg |-> m]

STD_QUERIES(db, section) ==
    LET msgs == db.messagesTable
        rowsOf(m) ==
          LET js == SelectSeq(JoinByContentString(db, m, section = "Images"),
                              LAMBDA j : StdWhere(section, m, j))
          IN  [n \in 1..Len(js) |-> StdRow(section, m, js[n])]
    IN  Flatten([i \in 1..Len(msgs) |-> rowsOf(msgs[i])])

\* The queries of the single-database HTML report: the image table is
\* joined on the message's content_id; only the Private query joins
\* KIKContentTable, and the Images query has no WHERE clause.
HtmlWhere(section, m) ==
    CASE section = "Private Messages" -> Like(m.bin_id, TalkSuffix)
      [] section = "Group Messages" -> Like(m.bin_id, GroupSuffix)
      [] section = "Images" -> TRUE

HtmlRow(section, m, j) ==
    CASE section = "Private Messages" ->
           [_id |-> m._id, bin_id |-> m.bin_id, sender |-> Sender(m),
            body |-> Coalesce(m.body, NoText), content_id |-> m.content_id,
            image_id |-> Coalesce(j.ai.image_id, j.kc.content_string),
            g_msg |-> m]
      [] section = "Group Messages" ->
           [_id |-> m._id, bin_id |-> m.bin_id, sender |-> Sender(m),
            body |-> Coalesce(m.body, NoText), content_id |-> m.content_id,
            image_id |-> j.ai.image_id, g_msg |-> m]
      [] section = "Images" ->
           [sender |-> Sender(m), content_id |-> m.content_id,
            image_id |-> j.ai.image_id, g_msg |-> m]

HTML_QUERIES(db, section) ==
    LET msgs == db.messagesTable
        rowsOf(m) ==
          LET js == JoinByContentId(db, m, section = "Private Messages")
          IN  IF HtmlWhere(section, m)
              THEN [n \in 1..Len(js) |-> HtmlRow(section, m, js[n])]
              ELSE <<>>
    IN  Flatten([i \in 1..Len(msgs) |-> rowsOf(msgs[i])])

\* ------------------------------------------------- the scanned folder

BackupExt == <<".backup">>
JsonExt == <<".json">>

\* The messagesTables a backup may hold: runs of consecutive rows of
\* MessagePool, at most MaxMsgs long.
MessageTables ==
    { SubSeq(MessagePool, a, a + n - 1) :
        <<a, n>> \in { w \in (1..Len(MessagePool)) \X (0..MaxMsgs) :
                         w[1] + w[2] - 1 <= Len(MessagePool) } }

\* A table with two direct messages, for the backups whose image index or
\* store cannot be read.
FixedTable == SubSeq(MessagePool, 1, 2)

\* What a .backup file and the index beside it hold: csv is the state of
\* <file>_image_index.csv; db is "ok" for a store with every table, "error"
\* for a file no query can read, and "noretain" for a store of a schema
\* revision without KIKContentRetainCountTable.
BackupContents ==
    [csv : {"ok"}, db : {"ok"}, messages : MessageTables]
      \cup [csv : {"missing", "nocolumns", "unreadable"}, db : {"ok"},
            messages : {FixedTable}]
      \cup [csv : {"ok"}, db : {"error", "noretain"}, messages : {FixedTable}]

\* Whether a query that joins the four side tables (and, with withRetain,
\* KIKContentRetainCountTable) raises on a store in state db.
QueryRaises(db, withRetain) ==
    db = "error" \/ (db = "noretain" /\ withRetain)

\* JSON scalars as json.load returns them: a str, a number, None.
JStr(text) == [type |-> "string", text |-> text]
JNum(text) == [type |-> "number", text |-> text]
JNull == [type |-> "null", text |-> <<"None">>]

\* A document: syntax is whether the text parses, top the type of the
\* top-level value, value the list under the key "value".
JDoc(cases) == [syntax |-> "ok", top |-> "object", value |-> cases]

DigitTok(n) == CASE n = 1 -> "1" [] n = 2 -> "2" [] n = 3 -> "3" [] OTHER -> "n"

\* The n-th backup file of a folder.
BackupFile(n, c) ==
    [name |-> <<"kik", DigitTok(n)>> \o BackupExt, csv |-> c.csv, db |-> c.db,
     messages |-> c.messages, doc |-> JDoc(<<>>)]

\* The image_id -> filename rows of the index file beside a backup.  Image
\* k4 has an empty blob and so no extracted file; the file of k2 was renamed
\* to upper case, and the file name of k3 ends with a blank.
ImageIndex ==
    (<<"k1">> :> <<"k1", ".png">>) @@ (<<"k2">> :> <<"K2", ".JPG">>)
      @@ (<<"k3">> :> <<"k3", ".png", " ">>)

\* The case listing: cases -> Media groups -> MediaFiles.  The file K1.png
\* is listed twice, under Draft first and Evidence later.
TaxonomyDoc ==
    JDoc(<<
       [Media |-> <<
          [Category |-> JStr(<<"Draft">>),
           MediaFiles |-> << [FileName |-> JStr(<<"K1", ".png">>)] >>],
          [Category |-> JStr(<<"Evidence">>),
           MediaFiles |-> << [FileName |-> JStr(<<" ", "K1", ".PNG", " ">>)],
                             [FileName |-> JStr(<<"k3", ".png", " ">>)],
                             [FileName |-> JStr(<<"k4", ".jpg">>)] >>],
          [Category |-> JStr(<<"Other", " ">>),
           MediaFiles |-> << [FileName |-> JStr(<<"k2", ".jpg">>)],
                             [FileName |-> JStr(<<" ">>)] >>] >>] >>)

\* Text that is no JSON.
InvalidJsonDoc == [syntax |-> "invalid", top |-> "object", value |-> <<>>]

\* A JSON array at the top level.
ArrayDoc == [syntax |-> "ok", top |-> "array", value |-> <<>>]

\* A listing whose second file entry has "FileName": null.
NullFileNameDoc ==
    JDoc(<<
       [Media |-> <<
          [Category |-> JStr(<<"Evidence">>),
           MediaFiles |-> << [FileName |-> JStr(<<"k1", ".png">>)],
                             [FileName |-> JNull] >>] >>] >>)

\* A listing whose category label is the number 5.
NumberCategoryDoc ==
    JDoc(<<
       [Media |-> <<
          [Category |-> JNum(<<"5">>),
           MediaFiles |-> << [FileName |-> JStr(<<"k1", ".png">>)] >>] >>] >>)

\* The listings that are not as the tool expects them.
OddDocs == {InvalidJsonDoc, ArrayDoc, NullFileNameDoc, NumberCategoryDoc}

JsonFileOf(doc) == [name |-> <<"cases">> \o JsonExt, csv |-> "none",
                    db |-> "none", messages |-> <<>>, doc |-> doc]

JsonFile == JsonFileOf(TaxonomyDoc)

\* The folders a run may be given: up to MaxSources backups, then the case
\* listing or none; and up to MaxSources backups of two direct messages with
\* a listing that is not as expected.
Folders ==
    LET lists == UNION { [1..n -> BackupContents] : n \in 0..MaxSources }
        fixed == [csv |-> "ok", db |-> "ok", messages |-> FixedTable]
    IN  { [i \in 1..Len(l) |-> BackupFile(i, l[i])] \o j :
            l \in lists, j \in {<<>>, <<JsonFile>>} }
          \cup { [i \in 1..n |-> BackupFile(i, fixed)] \o <<JsonFileOf(d)>> :
                   n \in 1..MaxSources, d \in OddDocs }

\* The --categories argument, split at the commas; NULL when not given.
CategoryArgs == { NoList, << <<" ", "Evidence">> >> }

\* ------------------------------------------------- BlueKikParserHTML.py

\* scan_folder: the backups in listing order, each with the paths of its
\* index and image folder, and the first .json file.
scan_folder(listing) ==
    LET bs == SelectSeq(listing, LAMBDA f : EndsWith(f.name, BackupExt))
        js == SelectSeq(listing, LAMBDA f :
                ~EndsWith(f.name, BackupExt) /\ EndsWith(f.name, JsonExt))
    IN  [backups |-> [i \in 1..Len(bs) |->
                        [db_path |-> bs[i].name,
                         image_csv |-> bs[i].name \o <<"_image_index.csv">>,
                         image_dir |-> bs[i].name \o <<"_images">>]],
         json_file |-> IF js = <<>> THEN NULL ELSE js[1].name]

\* Faulty variant of NoBackups: the check is missing.
NoBackupsUnchecked(bs) == FALSE

\* `if not backups:` in main.
NoBackups(bs) == bs = <<>>

\* Faulty variant of Continue: the loop ends at the first backup that gives
\* no result.
Break(i, n) == n + 1

\* `continue` in the loop of fetch_all_data: on to the backup after the i-th
\* of n.
Continue(i, n) == i + 1

\* The file of `listing` named `name`.
FileAt(listing, name) ==
    SelectSeq(listing, LAMBDA f : f.name = name)[1]

\* os.path.exists
Exists(listing, name) == \E n \in 1..Len(listing) : listing[n].name = name

\* str(v)
Str(v) == v.text

\* The (file name, category) pairs of a case listing, in document order, the
\* file name stripped, lower-cased and without its image extension.
TaxonomyEntries(data) ==
    Flatten([c \in 1..Len(data.value) |->
      Flatten([g \in 1..Len(data.value[c].Media) |->
        LET media == data.value[c].Media[g]
        IN  [e \in 1..Len(media.MediaFiles) |->
               [fname |-> DropImageExtension(
                            Lower(Strip(media.MediaFiles[e].FileName.text))),
                category |-> Strip(Str(media.Category))]]])])

\* Faulty variant of Raises: only text that is no JSON is caught.
RaisesOnSyntaxOnly(data) == data.syntax # "ok"

\* Whether loading the listing raises inside the try block: json.load on
\* text that is no JSON, data.get on a value that is no dict, .strip on a
\* FileName that is no str.
Raises(data) ==
    \/ data.syntax # "ok"
    \/ data.top # "object"
    \/ \E c \in 1..Len(data.value) :
         \E g \in 1..Len(data.value[c].Media) :
           \E e \in 1..Len(data.value[c].Media[g].MediaFiles) :
             data.value[c].Media[g].MediaFiles[e].FileName.type # "string"

\* load_category_map: {} without a file and when loading raises; else the
\* entries with a non-empty name, a later entry overwriting an earlier one.
load_category_map(listing, json_path) ==
    IF json_path = NULL \/ ~Exists(listing, json_path) THEN <<>>
    ELSE IF Raises(FileAt(listing, json_path).doc) THEN <<>>
    ELSE LET es == TaxonomyEntries(FileAt(listing, json_path).doc)
             keys == { es[n].fname : n \in 1..Len(es) } \ {<<>>}
         IN  [k \in keys |->
                LET last == CHOOSE n \in 1..Len(es) :
                              /\ es[n].fname = k
                              /\ \A n2 \in 1..Len(es) : es[n2].fname = k => n2 <= n
                IN  es[last].category]

\* dict.get / Series.map: NULL (NaN) for a key the mapping lacks.
Lookup(mapping, key) == IF key \in DOMAIN mapping THEN mapping[key] ELSE NULL

\* astype(str): None becomes the string 'None'.
AsStr(v) == IF v = NULL THEN <<"None">> ELSE v

NoFrames == [s \in {} |-> <<>>]

\* fetch_data_from_db: the three frames, or {} when a query raises.
fetch_data_from_db(file) ==
    IF \E s \in Sections : QueryRaises(file.db, s = "Images")
    THEN NoFrames
    ELSE [s \in Sections |-> BackupQuery(Database(file.messages), s)]

\* pd.read_csv(image_csv) ... to_dict(): the lookup of a readable index.
image_lookup(file) == ImageIndex

\* The three columns process_backup derives for one row, image_filename
\* dropped again.
Enrich(row, lookup, image_dir, category_map) ==
    LET image_filename == Lookup(lookup, AsStr(row.image_id))
        image_path == IF image_filename # NULL
                      THEN image_dir \o <<"/">> \o image_filename
                      ELSE NULL
        normalized == IF image_filename = NULL THEN NULL
                      ELSE DropImageExtension(Lower(image_filename))
        found == IF normalized = NULL THEN NULL ELSE Lookup(category_map, normalized)
        category == IF found = NULL THEN <<>> ELSE found
    IN  [f \in DOMAIN row \cup {"image_path", "category"} |->
           CASE f = "image_path" -> image_path
             [] f = "category" -> category
             [] OTHER -> row[f]]

None == [none |-> TRUE, frames |-> NoFrames]

\* Faulty variant of process_backup: a backup whose index cannot be read is
\* processed with an empty lookup.
process_backup_EmptyIndex(listing, backup, category_map) ==
    LET file == FileAt(listing, backup.db_path)
        data_frames == fetch_data_from_db(file)
        lookup == IF file.csv = "ok" THEN image_lookup(file) ELSE <<>>
    IN  IF DOMAIN data_frames = {} THEN None
        ELSE [none |-> FALSE,
              frames |-> [s \in DOMAIN data_frames |->
                 [n \in 1..Len(data_frames[s]) |->
                    Enrich(data_frames[s][n], lookup, backup.image_dir,
                           category_map)]]]

\* process_backup: None when the index is missing, lacks its columns or
\* cannot be read, and when the store gave no frames.
process_backup(listing, backup, category_map) ==
    LET file == FileAt(listing, backup.db_path)
        data_frames == fetch_data_from_db(file)
    IN  IF file.csv # "ok" THEN None
        ELSE IF DOMAIN data_frames = {} THEN None
        ELSE [none |-> FALSE,
              frames |-> [s \in DOMAIN data_frames |->
                 [n \in 1..Len(data_frames[s]) |->
                    Enrich(data_frames[s][n], image_lookup(file),
                           backup.image_dir, category_map)]]]

\* `not result` for an Optional[Dict].
Falsy(result) == result.none \/ DOMAIN result.frames = {}

\* Faulty variant of Accumulate: the frame is put in front of the list.
AccumulateInFront(frames, result, section) ==
    IF section \in DOMAIN result.frames /\ result.frames[section] # <<>>
    THEN <<result.frames[section]>> \o frames
    ELSE frames

\* The list of frames of one section after `result` is taken in.
Accumulate(frames, result, section) ==
    IF section \in DOMAIN result.frames /\ result.frames[section] # <<>>
    THEN Append(frames, result.frames[section])
    ELSE frames

\* combined_df.rename(columns={"_id": "id"})
RenameId(row) ==
    IF "_id" \in DOMAIN row
    THEN [f \in (DOMAIN row \ {"_id"}) \cup {"id"} |->
            IF f = "id" THEN row._id ELSE row[f]]
    ELSE row

\* pd.concat(df_list, ignore_index=True) and the rename; pd.DataFrame()
\* for a section no backup gave rows for.
Combine(df_list) ==
    LET all == Flatten(df_list)
    IN  [n \in 1..Len(all) |-> RenameId(all[n])]

RECURSIVE AccumulateAll(_, _, _, _)
\* The frames of `section` the loop of fetch_all_data takes in over the
\* backups bs.
AccumulateAll(listing, bs, category_map, section) ==
    IF bs = <<>> THEN <<>>
    ELSE LET result == process_backup(listing, Head(bs), category_map)
         IN  (IF Falsy(result) THEN <<>> ELSE Accumulate(<<>>, result, section))
               \o AccumulateAll(listing, Tail(bs), category_map, section)

\* fetch_all_data over the backups of a folder, as one function.
fetch_all_data(listing, category_map) ==
    [s \in Sections |->
       Combine(AccumulateAll(listing, scan_folder(listing).backups,
                             category_map, s))]

\* [c.strip() for c in args.categories.split(",")]
ParseCategories(arg) ==
    IF arg = NoList \/ arg = <<>> THEN NoList
    ELSE [n \in 1..Len(arg) |-> Strip(arg[n])]

InList(x, list) == \E n \in 1..Len(list) : list[n] = x

\* Faulty variant of FilterFrame: the rows outside the filter are kept.
FilterFrameComplement(frame, category_filter) ==
    SelectSeq(frame, LAMBDA r : ~InList(r.category, category_filter))

\* combined[section][combined[section]["category"].isin(category_filter)]
FilterFrame(frame, category_filter) ==
    SelectSeq(frame, LAMBDA r : InList(r.category, category_filter))

\* The filtering guard: a non-empty frame that has a category column.
Filterable(frame) == frame # <<>> /\ "category" \in DOMAIN frame[1]

\* ------------------------------------- blue_kik_parser.py, BlueKikParser.py

\* The queries of the BlueKikParser.py script: those of STD_QUERIES.
queries(db, section) ==
    LET msgs == db.messagesTable
        where(m, j) ==
          CASE section = "Private Messages" ->
                 Like(m.bin_id, TalkSuffix) /\ PreviewOrNull(j.kc)
            [] section = "Group Messages" ->
                 Like(m.bin_id, GroupSuffix) /\ PreviewOrNull(j.kc)
            [] section = "Images" ->
                 Like(m.bin_id, TalkSuffix) /\ NotBookkeeping(j.kc)
        rowsOf(m) ==
          LET js == SelectSeq(JoinByContentString(db, m, section = "Images"),
                              LAMBDA j : where(m, j))
          IN  [n \in 1..Len(js) |-> StdRow(section, m, js[n])]
    IN  Flatten([i \in 1..Len(msgs) |-> rowsOf(msgs[i])])

\* ----------------------------------------------------------------- state

VARIABLES
    prog,             \* which script runs
    pc,               \* its position
    folder,           \* the files it is given: a listing of file records
    args,             \* the parsed command line
    category_filter,  \* main: the accepted labels, or NoList
    backups,          \* main: the backups scan_folder returned
    json_path,        \* main: the case listing scan_folder returned
    category_map,     \* main: the taxonomy mapping
    idx,              \* fetch_all_data: the next backup of the loop
    accumulator,      \* fetch_all_data: per section, the frames taken in
    combined,         \* main: the report classes
    merged,           \* history: what fetch_all_data returned
    log,              \* the log records written so far
    report,           \* the report written, NoFrames before
    exit_code,        \* NULL while running
    sheets,           \* the workbook sheets of the single-database scripts
    html_frames,      \* blue_kik_parser.py: the frames of its HTML report
    connections,      \* the sqlite3 connections opened and not yet closed
    finalization,     \* when the interpreter finalizes an unreferenced object
    image_index       \* the index file the extractor wrote

vars == <<prog, pc, folder, args, category_filter, backups, json_path,
          category_map, idx, accumulator, combined, merged, log, report,
          exit_code, sheets, html_frames, connections, finalization,
          image_index>>

Programs == {"BlueKikParserHTML", "blue_kik_parser", "BlueKikParser",
             "BlueKikImageBlobExtractor"}

\* image_index before the extractor has written the file.
NoIndex == [written |-> FALSE, rows |-> <<>>]

\* A connection sqlite3.connect returned: the file, and the function that
\* holds it.
Connection(db_path, owner) == [db |-> db_path, owner |-> owner]

\* The connections left when the last reference to connection c goes away
\* without close(): the interpreter closes c at once where objects are
\* finalized as soon as they are unreferenced, and at some later collection
\* where they are not.
Dropped(conns, c) ==
    IF finalization = "immediate" THEN conns \ {c} ELSE conns \cup {c}

\* Faulty variant of EmptyAccumulator: the lists still hold a frame of an
\* earlier call.
StaleAccumulator ==
    [s \in Sections |-> << << [_id |-> 0, category |-> <<>>] >> >>]

\* accumulator = {"Private Messages": [], "Group Messages": [], "Images": []}
EmptyAccumulator == [s \in Sections |-> <<>>]

Entry(level, msg, arg) == [level |-> level, msg |-> msg, arg |-> arg]

Init ==
    /\ prog \in Programs
    /\ pc = "start"
    /\ IF prog = "BlueKikParserHTML"
       THEN /\ folder \in Folders
            /\ args \in [categories : CategoryArgs, html : {FALSE}]
       ELSE /\ folder \in { <<BackupFile(1, c)>> : c \in BackupContents }
            /\ args \in [categories : {NoList},
                         html : IF prog = "blue_kik_parser" THEN BOOLEAN
                                ELSE {FALSE}]
    /\ category_filter = NoList
    /\ backups = <<>>
    /\ json_path = NULL
    /\ category_map = <<>>
    /\ idx = 1
    /\ accumulator = EmptyAccumulator
    /\ combined = EmptyAccumulator
    /\ merged = EmptyAccumulator
    /\ log = <<>>
    /\ report = NoFrames
    /\ exit_code = NULL
    /\ sheets = NoFrames
    /\ html_frames = NoFrames
    /\ connections = {}
    /\ finalization \in {"immediate", "deferred"}
    /\ image_index = NoIndex

\* ------------------------------------------- BlueKikParserHTML.py: main

\* main, to the scan: no backup in the folder ends the run with status 1.
NoSourcesFound ==
    /\ prog = "BlueKikParserHTML" /\ pc = "start"
    /\ NoBackups(scan_folder(folder).backups)
    /\ category_filter' = ParseCategories(args.categories)
    /\ backups' = <<>>
    /\ json_path' = scan_folder(folder).json_file
    /\ log' = Append(log, Entry("ERROR", "No valid database/image index pairs found.", NULL))
    /\ exit_code' = ExitFailure
    /\ pc' = "exited"
    /\ UNCHANGED <<prog, folder, args, category_map, idx, accumulator,
                   combined, merged, report, sheets, html_frames>>
    /\ UNCHANGED <<connections, finalization, image_index>>

\* main, to the scan: some backup was found.
ScanFolder ==
    /\ prog = "BlueKikParserHTML" /\ pc = "start"
    /\ ~NoBackups(scan_folder(folder).backups)
    /\ category_filter' = ParseCategories(args.categories)
    /\ backups' = scan_folder(folder).backups
    /\ json_path' = scan_folder(folder).json_file
    /\ pc' = "load"
    /\ UNCHANGED <<prog, folder, args, category_map, idx, accumulator,
                   combined, merged, log, report, exit_code, sheets,
                   html_frames>>
    /\ UNCHANGED <<connections, finalization, image_index>>

LoadCategoryMap ==
    /\ prog = "BlueKikParserHTML" /\ pc = "load"
    /\ category_map' = load_category_map(folder, json_path)
    /\ log' = IF json_path = NULL \/ ~Exists(folder, json_path)
              THEN Append(log, Entry("WARNING", "No category JSON provided or file not found.", NULL))
              ELSE IF Raises(FileAt(folder, json_path).doc)
              THEN Append(log, Entry("ERROR", "Failed to load category JSON", json_path))
              ELSE log
    /\ idx' = 1
    /\ accumulator' = EmptyAccumulator
    /\ pc' = "fetch"
    /\ UNCHANGED <<prog, folder, args, category_filter, backups, json_path,
                   combined, merged, report, exit_code, sheets, html_frames>>
    /\ UNCHANGED <<connections, finalization, image_index>>

\* What process_backup and fetch_data_from_db log for one backup.
ProcessLog(file, backup) ==
    CASE file.csv = "missing" ->
           <<Entry("WARNING", "Missing image index CSV", backup.image_csv)>>
      [] file.csv = "nocolumns" ->
           <<Entry("ERROR", "Image index CSV missing required columns.", backup.image_csv)>>
      [] file.csv = "unreadable" ->
           <<Entry("ERROR", "Error reading image index", backup.image_csv)>>
      [] file.csv = "ok" /\ file.db # "ok" ->
           <<Entry("ERROR", "Failed to query", backup.db_path)>>
      [] OTHER -> <<>>

\* fetch_all_data, one pass of the loop over a backup that gave no result.
SkipBackup ==
    /\ prog = "BlueKikParserHTML" /\ pc = "fetch" /\ idx <= Len(backups)
    /\ LET backup == backups[idx]
           result == process_backup(folder, backup, category_map)
       IN  /\ Falsy(result)
           /\ log' = log \o ProcessLog(FileAt(folder, backup.db_path), backup)
                         \o <<Entry("ERROR", "Failed to process", backup.db_path)>>
    /\ idx' = Continue(idx, Len(backups))
    /\ UNCHANGED <<prog, pc, folder, args, category_filter, backups,
                   json_path, category_map, accumulator, combined, merged,
                   report, exit_code, sheets, html_frames>>
    /\ connections' =
         IF FileAt(folder, backups[idx].db_path).csv = "ok"
         THEN Dropped(connections,
                      Connection(backups[idx].db_path, "fetch_data_from_db"))
         ELSE connections
    /\ UNCHANGED <<finalization, image_index>>

\* fetch_all_data, one pass of the loop over a backup that was processed.
TakeBackup ==
    /\ prog = "BlueKikParserHTML" /\ pc = "fetch" /\ idx <= Len(backups)
    /\ LET backup == backups[idx]
           result == process_backup(folder, backup, category_map)
       IN  /\ ~Falsy(result)
           /\ accumulator' = [s \in Sections |->
                                Accumulate(accumulator[s], result, s)]
    /\ idx' = idx + 1
    /\ UNCHANGED <<prog, pc, folder, args, category_filter, backups,
                   json_path, category_map, combined, merged, log, report,
                   exit_code, sheets, html_frames>>
    /\ connections' =
         IF FileAt(folder, backups[idx].db_path).csv = "ok"
         THEN Dropped(connections,
                      Connection(backups[idx].db_path, "fetch_data_from_db"))
         ELSE connections
    /\ UNCHANGED <<finalization, image_index>>

\* fetch_all_data, after the loop: the frames of each section concatenated.
CombineSections ==
    /\ prog = "BlueKikParserHTML" /\ pc = "fetch" /\ idx > Len(backups)
    /\ combined' = [s \in Sections |-> Combine(accumulator[s])]
    /\ merged' = combined'
    /\ accumulator' = EmptyAccumulator
    /\ pc' = "filter"
    /\ UNCHANGED <<prog, folder, args, category_filter, backups, json_path,
                   category_map, idx, log, report, exit_code, sheets,
                   html_frames>>
    /\ UNCHANGED <<connections, finalization, image_index>>

\* The "Filtered ..." records of the sections that are filtered, in order.
FilterLog(frames, filter) ==
    Flatten([n \in 1..Len(SectionOrder) |->
      LET s == SectionOrder[n]
      IN  IF Filterable(frames[s])
          THEN <<Entry("INFO", "Filtered",
                       [section |-> s, before |-> Len(frames[s]),
                        after |-> Len(FilterFrame(frames[s], filter))])>>
          ELSE <<>>])

\* main: the category filter, when --categories was given.
ApplyFilter ==
    /\ prog = "BlueKikParserHTML" /\ pc = "filter"
    /\ category_filter # NoList
    /\ combined' = [s \in Sections |->
                      IF Filterable(combined[s])
                      THEN FilterFrame(combined[s], category_filter)
                      ELSE combined[s]]
    /\ log' = log \o FilterLog(combined, category_filter)
                  \o IF \A s \in Sections : combined'[s] = <<>>
                     THEN <<Entry("WARNING", "No rows matched the specified category filter.", NULL)>>
                     ELSE <<>>
    /\ pc' = "render"
    /\ UNCHANGED <<prog, folder, args, category_filter, backups, json_path,
                   category_map, idx, accumulator, merged, report, exit_code,
                   sheets, html_frames>>
    /\ UNCHANGED <<connections, finalization, image_index>>

NoFilter ==
    /\ prog = "BlueKikParserHTML" /\ pc = "filter"
    /\ category_filter = NoList
    /\ pc' = "render"
    /\ UNCHANGED <<prog, folder, args, category_filter, backups, json_path,
                   category_map, idx, accumulator, combined, merged, log,
                   report, exit_code, sheets, html_frames>>
    /\ UNCHANGED <<connections, finalization, image_index>>

\* render_html, and the end of main.
RenderHtml ==
    /\ prog = "BlueKikParserHTML" /\ pc = "render"
    /\ report' = combined
    /\ log' = Append(log, Entry("INFO", "HTML written to", <<"Combined_Kik_Report.html">>))
    /\ exit_code' = ExitOk
    /\ pc' = "done"
    /\ UNCHANGED <<prog, folder, args, category_filter, backups, json_path,
                   category_map, idx, accumulator, combined, merged, sheets,
                   html_frames>>
    /\ UNCHANGED <<connections, finalization, image_index>>

\* ---------------------------- blue_kik_parser.py and BlueKikParser.py: main

SingleDatabase == prog \in {"blue_kik_parser", "BlueKikParser"}

\* The bin_id check on a store that cannot be read: status 1, nothing
\* exported.
DatabaseUnreadable ==
    /\ SingleDatabase /\ pc = "start"
    /\ folder[1].db = "error"
    /\ log' = Append(log, Entry("ERROR", "Required column 'bin_id' not found in messagesTable. Exiting.", NULL))
    /\ exit_code' = ExitFailure
    /\ pc' = "exited"
    /\ UNCHANGED <<prog, folder, args, category_filter, backups, json_path,
                   category_map, idx, accumulator, combined, merged, report,
                   sheets, html_frames>>
    /\ connections' = connections \cup {Connection(folder[1].name, "main")}
    /\ UNCHANGED <<finalization, image_index>>

\* The workbook: one sheet per standard query; a query that raises is
\* logged and gives no sheet.
ExportSheets ==
    /\ SingleDatabase /\ pc = "start"
    /\ folder[1].db # "error"
    /\ LET raises(s) == QueryRaises(folder[1].db, s = "Images")
       IN  /\ sheets' = [s \in { t \in Sections : ~raises(t) } |->
                           IF prog = "blue_kik_parser"
                           THEN STD_QUERIES(Database(folder[1].messages), s)
                           ELSE queries(Database(folder[1].messages), s)]
           /\ log' = log \o Flatten([n \in 1..Len(SectionOrder) |->
                        IF raises(SectionOrder[n])
                        THEN <<Entry("ERROR", "Error processing", <<SectionOrder[n]>>)>>
                        ELSE <<>>])
    /\ IF args.html
       THEN pc' = "html" /\ exit_code' = exit_code
       ELSE pc' = "done" /\ exit_code' = ExitOk
    /\ UNCHANGED <<prog, folder, args, category_filter, backups, json_path,
                   category_map, idx, accumulator, combined, merged,
                   report, html_frames>>
    /\ connections' = IF args.html
                       THEN connections \cup {Connection(folder[1].name, "main")}
                       ELSE connections
    /\ UNCHANGED <<finalization, image_index>>

\* --html: fetch_data_from_db(HTML_QUERIES) and generate_html.
GenerateHtml ==
    /\ prog = "blue_kik_parser" /\ pc = "html"
    /\ html_frames' = [s \in Sections |->
                         HTML_QUERIES(Database(folder[1].messages), s)]
    /\ report' = html_frames'
    /\ log' = Append(log, Entry("INFO", "HTML report successfully generated", NULL))
    /\ exit_code' = ExitOk
    /\ pc' = "done"
    /\ UNCHANGED <<prog, folder, args, category_filter, backups, json_path,
                   category_map, idx, accumulator, combined, merged, sheets>>
    /\ connections' = connections \ {Connection(folder[1].name, "main")}
    /\ UNCHANGED <<finalization, image_index>>

\* ------------------------------------------- BlueKikImageBlobExtractor.py

\* detect_image_extension: the format the header announces, or jpg.
detect_image_extension(image_bytes) ==
    IF Head(image_bytes) \in {"png", "gif", "jpeg"} THEN Head(image_bytes)
    ELSE "jpg"

\* save_image: the name of the file written for one image.
save_image(image_id, image_bytes) ==
    image_id \o <<".", detect_image_extension(image_bytes)>>

\* The rows extract_images_from_db writes to the index file: one for every
\* image with a non-empty blob.
IndexRows(table) ==
    LET saved == SelectSeq(table, LAMBDA r : r.image_bytes # <<>>)
    IN  [k \in { saved[n].image_id : n \in 1..Len(saved) } |->
           LET n == CHOOSE n \in 1..Len(saved) : saved[n].image_id = k
           IN  save_image(k, saved[n].image_bytes)]

\* extract_images_from_db on a store whose image table can be read: the
\* images are saved, the index file is written, the connection is closed.
ExtractImages ==
    /\ prog = "BlueKikImageBlobExtractor" /\ pc = "start"
    /\ folder[1].db # "error"
    /\ image_index' = [written |-> TRUE,
                       rows |-> IndexRows(AccountSwitcherImgBackupTable)]
    /\ log' = Append(log, Entry("INFO", "Finished extracting from", folder[1].name))
    /\ exit_code' = ExitOk
    /\ pc' = "done"
    /\ UNCHANGED <<prog, folder, args, category_filter, backups, json_path,
                   category_map, idx, accumulator, combined, merged, report,
                   sheets, html_frames, connections, finalization>>

\* extract_images_from_db on a file the SELECT raises on: the error is
\* logged and the function returns, close() not called.
ExtractSqlError ==
    /\ prog = "BlueKikImageBlobExtractor" /\ pc = "start"
    /\ folder[1].db = "error"
    /\ log' = Append(log, Entry("ERROR", "SQL error in", folder[1].name))
    /\ connections' = Dropped(connections,
                              Connection(folder[1].name, "extract_images_from_db"))
    /\ exit_code' = ExitOk
    /\ pc' = "done"
    /\ UNCHANGED <<prog, folder, args, category_filter, backups, json_path,
                   category_map, idx, accumulator, combined, merged, report,
                   sheets, html_frames, finalization, image_index>>

Next ==
    \/ NoSourcesFound
    \/ ScanFolder
    \/ LoadCategoryMap
    \/ SkipBackup
    \/ TakeBackup
    \/ CombineSections
    \/ ApplyFilter
    \/ NoFilter
    \/ RenderHtml
    \/ DatabaseUnreadable
    \/ ExportSheets
    \/ GenerateHtml
    \/ ExtractImages
    \/ ExtractSqlError

Spec == Init /\ [][Next]_vars

\* ================================================================= claims

Main == prog = "BlueKikParserHTML"
\* fetch_all_data has returned.
Fetched == Main /\ pc \in {"filter", "render", "done"}
Ended == pc \in {"done", "exited"}

BackupFiles == SelectSeq(folder, LAMBDA f : EndsWith(f.name, BackupExt))
IndexUnreadable(f) == EndsWith(f.name, BackupExt) /\ f.csv # "ok" /\ f.db = "ok"
SourceUnreadable(f) == EndsWith(f.name, BackupExt) /\ f.db # "ok"

RECURSIVE Sum(_)
Sum(ns) == IF ns = <<>> THEN 0 ELSE Head(ns) + Sum(Tail(ns))

\* The number of rows the query of `section` gives on the store of file f.
RowCount(f, section) == Len(BackupQuery(Database(f.messages), section))

C2_SourceUnreadableSkipped ==
    Fetched =>
      /\ idx = Len(backups) + 1
      /\ merged = fetch_all_data(SelectSeq(folder, LAMBDA f : ~SourceUnreadable(f)),
                                 category_map)

\* The first backup fails to read, the second is readable and gives rows.
C2_Witness ==
    /\ Main /\ pc = "done" /\ Len(BackupFiles) = 2
    /\ SourceUnreadable(BackupFiles[1])
    /\ BackupFiles[2].db = "ok" /\ BackupFiles[2].csv = "ok"
    /\ merged["Private Messages"] # <<>>

\* C3: with no backup in the folder the run ends with status 1 straight
\* after the scan: the taxonomy is not loaded, no backup is processed, no
\* report is written, and nothing follows.
C3_NoSourcesFatalFirst ==
    (Main /\ pc # "start" /\ scan_folder(folder).backups = <<>>) =>
      /\ pc = "exited" /\ exit_code = ExitFailure
      /\ category_map = <<>> /\ idx = 1
      /\ accumulator = EmptyAccumulator /\ combined = EmptyAccumulator
      /\ merged = EmptyAccumulator /\ report = NoFrames
      /\ log = <<Entry("ERROR", "No valid database/image index pairs found.", NULL)>>
      /\ ~ENABLED Next

\* A folder that holds a case listing and no backup.
C3_Witness ==
    /\ Main /\ pc = "exited" /\ json_path # NULL
    /\ load_category_map(folder, json_path) # <<>>

\* A source the run can use: its store answers the queries.
Readable(f) == EndsWith(f.name, BackupExt) /\ f.db = "ok"
HardFailure == exit_code = ExitFailure /\ report = NoFrames
Success == exit_code = ExitOk /\ DOMAIN report = Sections

\* C4 as stated: the run ends in hard failure exactly when no source is
\* readable, and in success otherwise.
C4_HardFailureIffNoReadableSource ==
    (Main /\ Ended) =>
      /\ HardFailure \/ Success
      /\ HardFailure <=> ~\E n \in 1..Len(folder) : Readable(folder[n])

NoRowsMatched ==
    \E n \in 1..Len(log) :
      log[n].msg = "No rows matched the specified category filter."

\* The records the run writes for conditions other than an empty result.
OtherMessages ==
    {"No valid database/image index pairs found.",
     "No category JSON provided or file not found.",
     "Missing image index CSV", "Image index CSV missing required columns.",
     "Error reading image index", "Failed to query", "Failed to process",
     "Filtered", "No rows matched the specified category filter.",
     "HTML written to"}

AllEmpty(frames) == \A s \in Sections : frames[s] = <<>>

\* C5 as stated: the filter warning is written only when the merged set
\* had rows before filtering and has none after, and an empty merged set is
\* reported by a record of its own.
C5_EmptyResultDistinguished ==
    (Main /\ pc = "done") =>
      /\ NoRowsMatched => (~AllEmpty(merged) /\ AllEmpty(combined))
      /\ AllEmpty(merged) =>
           \E n \in 1..Len(log) : log[n].msg \notin OtherMessages

RowsOf(frames, section) ==
    IF section \in DOMAIN frames THEN frames[section] ELSE <<>>

\* Every row of report class `section` any script holds: in the frames
\* taken in, merged, filtered and rendered, in the workbook sheets and in the
\* frames of the single-database HTML report.
ClassRows(section) ==
    Flatten(accumulator[section]) \o merged[section] \o combined[section]
      \o RowsOf(report, section) \o RowsOf(sheets, section)
      \o RowsOf(html_frames, section)

\* C6: in every row of every report class the sender is the self marker
\* when the message was sent by the account owner, and the raw partner
\* identifier only when it was not.
C6_SelfSenderSubstituted ==
    \A s \in Sections : \A n \in 1..Len(ClassRows(s)) :
      LET r == ClassRows(s)[n]
      IN  /\ r.g_msg.was_me = 1 => r.sender = SelfMarker
          /\ r.sender = r.g_msg.partner_jid => r.g_msg.was_me # 1

\* A finished report with a row of the account owner in each class, the raw
\* partner identifier of each differing from the marker.
C6_Witness ==
    /\ Main /\ pc = "done"
    /\ \A s \in Sections : \E n \in 1..Len(report[s]) :
         /\ report[s][n].g_msg.was_me = 1
         /\ report[s][n].g_msg.partner_jid # SelfMarker
         /\ report[s][n].sender = SelfMarker

\* The content_name tags a row of an Images class is linked to: the joined
\* row's content_name where the query joins KIKContentTable, and else the
\* content_name of every KIKContentTable row of the message's content_id.
LinkedContentNames(r) ==
    IF "content_name" \in DOMAIN r
    THEN {r.content_name} \ {NULL}
    ELSE { KIKContentTable[n].content_name :
             n \in { k \in 1..Len(KIKContentTable) :
                       SqlEq(KIKContentTable[k].content_id, r.content_id) } }

\* C7 as stated: no row of an Images class, in any query variant, stands
\* for content whose content_name is a bookkeeping tag only.
C7_NoBookkeepingInImages ==
    \A n \in 1..Len(ClassRows("Images")) :
      LET names == LinkedContentNames(ClassRows("Images")[n])
      IN  names = {} \/ ~(names \subseteq BookkeepingTags)

\* C8 as stated: the private class holds only rows whose channel
\* identifier ends with '@talk.kik.com', the group class only rows whose
\* channel identifier ends with '@groups.kik.com'.
C8_SuffixExact ==
    /\ \A n \in 1..Len(ClassRows("Private Messages")) :
         EndsWith(ClassRows("Private Messages")[n].bin_id, TalkSuffix)
    /\ \A n \in 1..Len(ClassRows("Group Messages")) :
         EndsWith(ClassRows("Group Messages")[n].bin_id, GroupSuffix)

\* C8, amended: the suffix is compared without regard to ASCII letter case,
\* as LIKE compares.  The private class holds only rows whose channel
\* identifier so ends with '@talk.kik.com', the group class only rows whose
\* channel identifier so ends with '@groups.kik.com'; no channel identifier
\* is in both classes, and a row whose identifier has neither suffix is in
\* neither.
C8_SuffixClasses ==
    /\ \A n \in 1..Len(ClassRows("Private Messages")) :
         LET b == ClassRows("Private Messages")[n].bin_id
         IN  EndsWith(Lower(b), TalkSuffix) /\ ~EndsWith(Lower(b), GroupSuffix)
    /\ \A n \in 1..Len(ClassRows("Group Messages")) :
         LET b == ClassRows("Group Messages")[n].bin_id
         IN  EndsWith(Lower(b), GroupSuffix) /\ ~EndsWith(Lower(b), TalkSuffix)
    /\ \A n \in 1..Len(ClassRows("Private Messages")) :
         \A k \in 1..Len(ClassRows("Group Messages")) :
           ClassRows("Private Messages")[n].bin_id
             # ClassRows("Group Messages")[k].bin_id

\* A finished report of a store that holds a direct message in upper case
\* and a message of neither kind: the first is in the private class, the
\* second in no class.
C8_Witness ==
    /\ Main /\ pc = "done" /\ Len(BackupFiles) = 1
    /\ BackupFiles[1].messages = SubSeq(MessagePool, 5, 6)
    /\ Len(report["Private Messages"]) = 1
    /\ report["Private Messages"][1].bin_id = <<"bob", "@TALK.KIK.COM">>
    /\ report["Group Messages"] = <<>>

\* The content_string of the KIKContentTable row a row was joined with.
JoinedContentString(r) ==
    LET hits == SelectSeq(KIKContentTable, LAMBDA kc :
                  SqlEq(kc.content_id, r.content_id)
                    /\ SqlEq(kc.content_name, r.content_name))
    IN  IF hits = <<>> THEN NULL ELSE hits[1].content_string

\* image_path ends with the file name the index gives for `key`.
ResolvesTo(r, key) ==
    r.image_path # NULL /\ EndsWith(r.image_path, <<"/">> \o ImageIndex[key])

\* C9 as stated: a row whose content_string is a key of the image index
\* resolves to that key's file; a row whose content_string is no key, and
\* whose content_id is one, resolves to the file of its content_id.
C9_PrimaryThenSecondary ==
    Fetched =>
      \A s \in Sections : \A n \in 1..Len(merged[s]) :
        LET r == merged[s][n]
            cs == JoinedContentString(r)
        IN  /\ cs \in DOMAIN ImageIndex => ResolvesTo(r, cs)
            /\ (cs \notin DOMAIN ImageIndex /\ r.content_id \in DOMAIN ImageIndex)
                 => ResolvesTo(r, r.content_id)

\* The rows of a frame whose category is one of the accepted labels.
Kept(frame) ==
    SelectSeq(frame, LAMBDA r :
      \E n \in 1..Len(category_filter) : category_filter[n] = r.category)

\* The before/after counts the run reported for `section`, in log order.
FilterReports(section) ==
    LET hits == SelectSeq(log, LAMBDA e :
                  e.msg = "Filtered" /\ e.arg.section = section)
    IN  [n \in 1..Len(hits) |->
           [before |-> hits[n].arg.before, after |-> hits[n].arg.after]]

Filtered == Main /\ pc \in {"render", "done"} /\ category_filter # NoList

\* C10 as stated: after filtering every class holds exactly its rows of an
\* accepted category, in order, and the run reports before and after counts
\* for every class, empty ones too.
C10_CountsForEveryClass ==
    Filtered =>
      \A s \in Sections :
        /\ combined[s] = Kept(merged[s])
        /\ FilterReports(s) =
             <<[before |-> Len(merged[s]), after |-> Len(Kept(merged[s]))]>>

\* C10, amended: after filtering every class holds exactly its rows of an
\* accepted category, in order; the run reports before and after counts for
\* every class that had rows before filtering, and nothing for a class that
\* had none.
C10_CountsForNonEmptyClasses ==
    Filtered =>
      \A s \in Sections :
        /\ combined[s] = Kept(merged[s])
        /\ FilterReports(s) =
             IF merged[s] # <<>>
             THEN <<[before |-> Len(merged[s]), after |-> Len(Kept(merged[s]))]>>
             ELSE <<>>

\* Two private rows before filtering, one of an accepted category, and a
\* group class with no rows and no report.
C10_Witness ==
    /\ Filtered /\ pc = "done"
    /\ FilterReports("Private Messages") = <<[before |-> 2, after |-> 1]>>
    /\ Len(combined["Private Messages"]) = 1
    /\ combined["Private Messages"][1].category = <<"Evidence">>
    /\ merged["Group Messages"] = <<>>
    /\ FilterReports("Group Messages") = <<>>

\* The key normalizer as the specification words it: surrounding
\* whitespace stripped, lower case, a trailing image extension removed.
normalize(key) == DropImageExtension(Lower(Strip(key)))

\* The file name the image index gives for the image of row r, NULL if none.
IndexedFileName(r) == Lookup(ImageIndex, AsStr(r.image_id))

\* The label the taxonomy mapping holds for `key`, the empty string if none.
LabelOf(key) ==
    IF key \in DOMAIN category_map THEN category_map[key] ELSE <<>>

\* C11 as stated: one normalizer serves both sides of the taxonomy lookup.
\* The empty string is no key of the mapping, every key is the normalized
\* form of a listed file name, and the category of every merged row whose
\* image has an indexed file is the label of that file name, normalized the
\* same way.
C11_OneNormalizer ==
    Fetched =>
      /\ <<>> \notin DOMAIN category_map
      /\ \A k \in DOMAIN category_map : normalize(k) = k
      /\ \A s \in Sections : \A n \in 1..Len(merged[s]) :
           LET f == IndexedFileName(merged[s][n])
           IN  f # NULL => merged[s][n].category = LabelOf(normalize(f))

\* load_category_map has returned.
Loaded == Main /\ pc \in {"fetch", "filter", "render", "done"}

\* The case listing the run found; a document without cases when it found
\* none.
Listing == IF json_path = NULL THEN JDoc(<<>>) ELSE FileAt(folder, json_path).doc

AllCategoriesEmpty ==
    \A s \in Sections : \A n \in 1..Len(merged[s]) : merged[s][n].category = <<>>

\* The mapping of the well-formed listing: K1.png, listed under Draft and
\* later under Evidence, has the later label.
ExpectedMap ==
    (<<"k1">> :> <<"Evidence">>) @@ (<<"k3">> :> <<"Evidence">>)
      @@ (<<"k4">> :> <<"Evidence">>) @@ (<<"k2">> :> <<"Other">>)

\* Loading never ends the run: a run that found a backup ends with status 0
\* and a report, whatever the listing.
LoadNeverAborts ==
    (Main /\ Ended /\ backups # <<>>) =>
      (exit_code = ExitOk /\ DOMAIN report = Sections)

\* C12 as stated: loading never ends the run; without a listing, and with
\* a listing malformed in any way (no JSON, a wrong top-level type, a wrong
\* nested type), the mapping is empty and every source is correlated with
\* every category empty; the well-formed listing gives each key its last
\* label.
C12_AnyMalformedGivesEmpty ==
    /\ LoadNeverAborts
    /\ Loaded =>
         /\ (json_path = NULL \/ Listing \in OddDocs) =>
              /\ category_map = <<>>
              /\ Fetched => (AllCategoriesEmpty /\ idx = Len(backups) + 1)
         /\ Listing = TaxonomyDoc => category_map = ExpectedMap

\* C12, amended: loading never ends the run; without a listing, and with a
\* listing whose loading raises (no JSON, a top-level value that is no
\* object, a file name that is no string), the mapping is empty, the
\* entries read before the error included, and every source is correlated
\* with every category empty; a category label that is no string does not
\* raise and is mapped as its text; the well-formed listing gives each key
\* its last label.
C12_RaisingLoadGivesEmpty ==
    /\ LoadNeverAborts
    /\ Loaded =>
         /\ (json_path = NULL
               \/ Listing \in {InvalidJsonDoc, ArrayDoc, NullFileNameDoc}) =>
              /\ category_map = <<>>
              /\ Fetched => (AllCategoriesEmpty /\ idx = Len(backups) + 1)
         /\ Listing = NumberCategoryDoc => category_map = (<<"k1">> :> <<"5">>)
         /\ Listing = TaxonomyDoc => category_map = ExpectedMap

\* A finished run over two backups and a listing whose second file name is
\* null: both backups are in the report, the row with image k1 without a
\* category although the listing names k1.png before the null.
C12_Witness ==
    /\ Main /\ pc = "done" /\ Listing = NullFileNameDoc
    /\ Len(BackupFiles) = 2 /\ Len(report["Private Messages"]) = 4
    /\ report["Private Messages"][2].image_id = <<"k1">>
    /\ report["Private Messages"][2].category = <<>>
    /\ exit_code = ExitOk

\* C13 as stated: every row of every merged class has a source_label, and
\* it names the backup the row came from: one backup of the run, in whose
\* own frames the row is found.
C13_SourceLabelled ==
    Fetched =>
      \A s \in Sections : \A n \in 1..Len(merged[s]) :
        /\ "source_label" \in DOMAIN merged[s][n]
        /\ \E k \in 1..Len(backups) :
             /\ merged[s][n].source_label = backups[k].db_path
             /\ \E i \in 1..Len(FileAt(folder, backups[k].db_path).messages) :
                  FileAt(folder, backups[k].db_path).messages[i]
                    = merged[s][n].g_msg

\* C14: correlation is a function of its inputs and leaves them as they
\* were.  The classes the run merged, pass by pass, are the classes
\* fetch_all_data gives when applied again to the same backups and the same
\* mapping, row for row and in the same order; the mapping is still the
\* mapping that was loaded, and the list of backups the list that was
\* scanned.
C14_Deterministic ==
    Fetched =>
      /\ merged = fetch_all_data(folder, category_map)
      /\ category_map = load_category_map(folder, json_path)
      /\ backups = scan_folder(folder).backups

\* A finished run over two backups that both gave private rows, with a
\* mapping that gave one of them a category.
C14_Witness ==
    /\ Main /\ pc = "done" /\ Len(backups) = 2
    /\ category_map # <<>>
    /\ Len(merged["Private Messages"]) >= 3
    /\ \E n \in 1..Len(merged["Private Messages"]) :
         merged["Private Messages"][n].category # <<>>
    /\ merged["Images"] # <<>>

\* C15 as stated: no connection of a source is open once its read has
\* ended, whether the queries succeeded or raised: none is open when the
\* loop of fetch_all_data turns to a backup or has passed the last one, and
\* none when a script has ended.
C15_ConnectionsReleased ==
    /\ (Main /\ pc = "fetch") => connections = {}
    /\ Ended => connections = {}

\* A backup whose messagesTable can be read and whose index is loaded.
MessagesReadable(f) ==
    EndsWith(f.name, BackupExt) /\ f.csv = "ok" /\ f.db \in {"ok", "noretain"}

\* C16 as stated: a backup that lacks a side table still gives its message
\* rows, and a query that fails for one class does not take the rows of the
\* other classes with it: every merged class holds the rows of every
\* backup whose messagesTable is readable, KIKContentRetainCountTable
\* present or not.
C16_DriftTolerated ==
    Fetched =>
      \A s \in Sections :
        Len(merged[s]) =
          Sum([n \in 1..Len(BackupFiles) |->
                 IF MessagesReadable(BackupFiles[n])
                 THEN RowCount(BackupFiles[n], s) ELSE 0])

\* The rows of class `section` the k-th backup of the run gives by itself:
\* those of its processed frame, none when it was not processed.
SourceRows(k, section) ==
    LET result == process_backup(folder, backups[k], category_map)
    IN  IF Falsy(result) THEN <<>>
        ELSE [n \in 1..Len(result.frames[section]) |->
                RenameId(result.frames[section][n])]

\* The rows of the first k backups, one backup after the other.
RECURSIVE RowsUpTo(_, _)
RowsUpTo(k, section) ==
    IF k = 0 THEN <<>> ELSE RowsUpTo(k - 1, section) \o SourceRows(k, section)

\* C17: every merged class is the rows of the processed backups, backup
\* after backup in the order of the scan and each backup's rows in their own
\* order; its length is the sum of the backups' counts, and a backup without
\* rows for the class adds nothing.
C17_OrderedConcatenation ==
    Fetched =>
      \A s \in Sections :
        /\ merged[s] = RowsUpTo(Len(backups), s)
        /\ Len(merged[s]) =
             Sum([k \in 1..Len(backups) |-> Len(SourceRows(k, s))])

\* Two processed backups: the first gives two private rows and an image
\* row, the second one private row and no image row, neither a group row.
\* The private class has the three rows in that order, the Images class
\* the one row, the group class none.
C17_Witness ==
    /\ Main /\ pc = "done" /\ Len(backups) = 2
    /\ Len(SourceRows(1, "Private Messages")) = 2
    /\ Len(SourceRows(2, "Private Messages")) = 1
    /\ Len(SourceRows(1, "Images")) = 1 /\ SourceRows(2, "Images") = <<>>
    /\ merged["Private Messages"] =
         SourceRows(1, "Private Messages") \o SourceRows(2, "Private Messages")
    /\ merged["Private Messages"][2].image_id = <<"k1">>
    /\ merged["Private Messages"][3].image_id = NULL
    /\ Len(merged["Images"]) = 1
    /\ merged["Group Messages"] = <<>>

\* image_path is empty whenever the row's image key is no key of the index.
PathEmptyWithoutIndexEntry ==
    \A s \in Sections : \A n \in 1..Len(merged[s]) :
      AsStr(merged[s][n].image_id) \notin DOMAIN ImageIndex
        => merged[s][n].image_path = NULL

\* C18 as stated: the category of a row is the label of its normalized
\* image key when the row has a resolved key, indexed or not, and of its
\* normalized image file name only when it has none, the empty string when
\* the mapping has no such key; and image_path is empty whenever the key is
\* absent from the index.
C18_CategoryFromKey ==
    Fetched =>
      /\ PathEmptyWithoutIndexEntry
      /\ \A s \in Sections : \A n \in 1..Len(merged[s]) :
           LET r == merged[s][n]
               f == IndexedFileName(r)
           IN  r.category =
                 IF r.image_id # NULL THEN LabelOf(normalize(r.image_id))
                 ELSE IF f # NULL THEN LabelOf(normalize(f))
                 ELSE <<>>

\* No two rows of the frame stand for the same message.
OneRowPerMessage(frame) ==
    \A i, j \in 1..Len(frame) : frame[i].g_msg = frame[j].g_msg => i = j

\* Every row of `frame` is a row of `of`.
RowsAmong(frame, of) ==
    \A n \in 1..Len(frame) : \E k \in 1..Len(of) : frame[n] = of[k]

\* Merging and filtering leave a row as correlation made it: a merged row
\* is a row of a processed backup (its _id column named id), and a row of
\* the filtered and of the rendered class is a merged row.
RowsUnmodified ==
    \A s \in Sections :
      /\ Fetched => RowsAmong(merged[s], RowsUpTo(Len(backups), s))
      /\ Fetched => RowsAmong(combined[s], merged[s])
      /\ (Main /\ pc = "done") => RowsAmong(report[s], merged[s])

\* C19 as stated: in the frame one backup gives for one class no message
\* has more than one row, whatever the side tables hold for its content_id;
\* and merging and filtering leave every row as it was made.
C19_OneRecordPerMessage ==
    /\ Main =>
         \A s \in Sections : \A n \in 1..Len(accumulator[s]) :
           OneRowPerMessage(accumulator[s][n])
    /\ RowsUnmodified
====
